---- MODULE Spec2Model ----
(***************************************************************************)
(* Catalog image pipeline: upload_image (exact-match dedup, tenant         *)
(* resolution, asset insert, per-preset reuse-or-generate loop, rendition  *)
(* commit), purge_assets (dry run / confirmed delete), the storage adapter *)
(* and the persistence constraints of models.py.                           *)
(*                                                                         *)
(* Every request handler is a coroutine with its own database session.     *)
(* An action of the model is one database round trip of a handler together *)
(* with the handler's code up to its next round trip; rows added to a      *)
(* session are invisible to other sessions until that session commits.     *)
(***************************************************************************)
EXTENDS Integers, Sequences, FiniteSets, TLC

\* ------------------------------------------------------------- bounds
\* Purge requests issued in a run, cap of the reference counter, storage
\* writes that fail in a run.
MaxPurges == 1
MaxInUse == 1
MaxWriteFaults == 1
\* Length of the hex strings handed to hamming_distance directly.
MaxHashLen == 2
\* Upload requests one client issues one after the other.
MaxUploads == 3
\* Purge requests that client issues between its uploads.
MaxSerialPurges == 2
\* Upload requests of the client that also purges.
MaxSerialUploads == 2

\* ------------------------------------------------------- configuration
MAX_UPLOAD_BYTES == 10485760
PHASH_SIZE == 8
PHASH_HAMMING_THRESHOLD == 5
RENDITION_QUALITY == 85
PRESETS == <<"thumb", "card", "zoom">>
PresetBox == [thumb |-> <<200, 200>>, card |-> <<600, 400>>, zoom |-> <<1600, 1600>>]
PURGE_CONFIRM_TOKEN == "DELETE_CONFIRMED"

PresetNames == {PRESETS[i] : i \in 1..Len(PRESETS)}

\* ------------------------------------------------------ fingerprinting
\* A perceptual hash is a hex string: a sequence of digits 0..15, most
\* significant first.  A content hash is 64 hex characters, kept as the
\* string of its first 8 characters followed by one token
\* standing for the remaining 56.
HexLen == (PHASH_SIZE * PHASH_SIZE) \div 4

Bit(n, i) == (n \div (2 ^ i)) % 2

\* int1 | int2 in place of int1 ^ int2.
Or4(a, b) == LET d(i) == IF Bit(a, i) = 1 \/ Bit(b, i) = 1 THEN 2 ^ i ELSE 0
             IN  d(0) + d(1) + d(2) + d(3)

Xor4(a, b) == LET d(i) == IF Bit(a, i) = Bit(b, i) THEN 0 ELSE 2 ^ i
              IN  d(0) + d(1) + d(2) + d(3)

PopCount4(n) == Bit(n, 0) + Bit(n, 1) + Bit(n, 2) + Bit(n, 3)

\* int(h, 16): the k-th least significant hex digit of the parsed integer;
\* positions beyond the string are zero, so strings of any two lengths parse.
HexDigit(h, k) == IF k <= Len(h) THEN h[Len(h) - k + 1] ELSE 0

MaxOf(a, b) == IF a >= b THEN a ELSE b

RECURSIVE XorBits(_, _, _)
XorBits(h1, h2, k) ==
    IF k = 0 THEN 0
    ELSE PopCount4(Xor4(HexDigit(h1, k), HexDigit(h2, k))) + XorBits(h1, h2, k - 1)

hamming_distance(hash1, hash2) == XorBits(hash1, hash2, MaxOf(Len(hash1), Len(hash2)))

is_near_duplicate_Strict(phash1, phash2) ==
    hamming_distance(phash1, phash2) < PHASH_HAMMING_THRESHOLD

is_near_duplicate(phash1, phash2) ==
    hamming_distance(phash1, phash2) <= PHASH_HAMMING_THRESHOLD

\* ---------------------------------------------------------- the inputs
\* Uploaded files.  Each is the byte payload of one request; what the image
\* codec and SHA-256 yield for it is tabulated here.
ZeroHash == [i \in 1..HexLen |-> 0]
WithDigits(h, ds) == [i \in 1..Len(h) |-> IF i \in DOMAIN ds THEN ds[i] ELSE h[i]]

Files == {"fA", "fB", "fC", "fBad", "fTrunc", "fBig"}

\* With fD: an image close to fB and not to fA.
SerialFiles == Files \cup {"fD"}

FileLen ==
    [fA |-> 5000, fB |-> 5100, fC |-> 7000, fD |-> 5200, fBad |-> 40, fTrunc |-> 900,
     fBig |-> 10485761]

\* open_image_from_bytes: Image.open identifies the format and reads the
\* header; whatever it raises becomes ValueError.
Decodable ==
    [fA |-> TRUE, fB |-> TRUE, fC |-> TRUE, fD |-> TRUE, fBad |-> FALSE, fTrunc |-> TRUE,
     fBig |-> TRUE]

\* Image.open reads no pixel data: it is decoded by the first operation that
\* needs it, image.resize in compute_phash, which raises OSError for a file
\* cut short after its header.
Loadable ==
    [fA |-> TRUE, fB |-> TRUE, fC |-> TRUE, fD |-> TRUE, fBad |-> FALSE, fTrunc |-> FALSE,
     fBig |-> TRUE]

\* sha256(data).hexdigest(): <<first 8 hex characters, the other 56>>.
compute_content_hash ==
    [fA   |-> <<"0a1b2c3d", "a">>,
     fB   |-> <<"11111111", "b">>,
     fC   |-> <<"0a1b2c3d", "c">>,
     fD   |-> <<"22222222", "d">>,
     fBad |-> <<"33333333", "e">>,
     fTrunc |-> <<"55555555", "g">>,
     fBig |-> <<"44444444", "f">>]

\* compute_phash of the decoded original.
OriginalPhash ==
    [fA |-> ZeroHash,
     fB |-> WithDigits(ZeroHash, [i \in {HexLen} |-> 15]),
     fC |-> [i \in 1..HexLen |-> 15],
     fD |-> WithDigits(ZeroHash, [i \in {2, HexLen} |-> IF i = 2 THEN 3 ELSE 15]),
     fBad |-> ZeroHash,
     fTrunc |-> ZeroHash,
     fBig |-> ZeroHash]

\* compute_phash of the re-encoded rendition: resizing and lossy encoding may
\* move bits, so it is tabulated apart from the original's hash.
RenditionPhash(f, preset) ==
    IF f = "fA" /\ preset = "thumb"
        THEN WithDigits(ZeroHash, <<7>>)
    ELSE IF f = "fA" /\ preset = "card"
        THEN WithDigits(ZeroHash, <<1>>)
    ELSE OriginalPhash[f]

\* Side of the (square) decoded original.
OriginalSide ==
    [fA |-> 100, fB |-> 100, fC |-> 400, fD |-> 100, fBad |-> 0, fTrunc |-> 100,
     fBig |-> 100]

MinOf(a, b) == IF a <= b THEN a ELSE b

\* generate_rendition_bytes: thumbnail() fits the image in the box keeping
\* the aspect ratio and never enlarges it; the bytes are identified by the
\* source file and the preset, their length by the output side.
generate_rendition_bytes(f, preset) ==
    LET side == MinOf(OriginalSide[f], MinOf(PresetBox[preset][1], PresetBox[preset][2]))
    IN  [bytes |-> <<f, preset>>, size |-> side * 3 + FileLen[f] \div 100,
         width |-> side, height |-> side]

\* storage_key = f"renditions/{content_hash[:8]}/{preset_name}.jpg"
storage_key(content_hash, preset) == <<"renditions", content_hash[1], preset, "jpg">>

TenantNames == {"t1", "t2"}
Tokens == {"none", PURGE_CONFIRM_TOKEN, "WRONG"}


\* --------------------------------------------------------------- state
VARIABLES
    tenants,      \* table tenants: rows [id, name]
    assets,       \* table assets: rows [id, tenant_id, content_hash, phash, in_use_count]
    renditions,   \* table renditions
    storage,      \* the storage backend: objects [key, data], one per key
    seq,          \* the primary-key sequences of the three tables
    fkEnforced,   \* the database backend: TRUE enforces foreign keys and never
                  \* reissues a key (PostgreSQL), FALSE does neither (SQLite)
    up,           \* upload_image requests, one per worker slot
    pg,           \* the purge_assets request in flight
    started,      \* how many requests have been issued
    writeFaults,  \* how many storage writes have failed
    calc          \* a direct call of a library function: arguments and result

vars == <<tenants, assets, renditions, storage, seq, fkEnforced, up, pg, started, writeFaults,
          calc>>

db == <<tenants, assets, renditions>>

\* The upload requests of a run: each is issued once, at any time, so the
\* two run one after the other or overlap in every way.
Workers == {"w1", "w2"}

NoOut == [id |-> 0, tenant_id |-> 0, renditions |-> {}]

IdleUpload ==
    [pc |-> "idle", file |-> "fA", tenant |-> "t1", missed |-> FALSE, tenant_id |-> 0,
     asset_id |-> 0, idx |-> 0, pending |-> <<>>, stage |-> "idle", status |-> 0,
     out |-> NoOut]

IdlePurge ==
    [pc |-> "idle", dry_run |-> TRUE, token |-> "none", candidates |-> {}, todo |-> {},
     marked |-> {}, status |-> 0, hashes |-> {}, deleted_count |-> 0, undeleted |-> {}]

IdleCalc == [fn |-> "none", args |-> <<>>, pc |-> "idle", result |-> 0]

Init ==
    /\ calc = IdleCalc
    /\ tenants = {}
    /\ assets = {}
    /\ renditions = {}
    /\ storage = {}
    /\ seq = [tenant |-> 1, asset |-> 1, rendition |-> 1]
    /\ fkEnforced \in BOOLEAN
    /\ up = [w \in Workers |-> IdleUpload]
    /\ pg = IdlePurge
    /\ started = [uploads |-> 0, purges |-> 0]
    /\ writeFaults = 0

\* ------------------------------------------------------- persistence
AssetByHash(h) == {a \in assets : a.content_hash = h}
AssetById(id) == {a \in assets : a.id = id}
TenantByName(n) == {t \in tenants : t.name = n}
RenditionsOf(id) == {r \in renditions : r.asset_id = id}

\* Lines 65-68: select(Asset).where(Asset.content_hash == content_hash).
ExistingAsset_NotFound(h) == {}

ExistingAsset(h) == AssetByHash(h)

\* Asset.content_hash is declared unique=True: the insert is refused when a
\* row with the hash is already committed.
AssetInsertAllowed_NoConstraint(h) == TRUE

AssetInsertAllowed(h) == AssetByHash(h) = {}

\* Tenant.name is declared unique=True.
TenantInsertAllowed(n) == TenantByName(n) = {}

\* ----------------------------------------------------------- storage
StorageKeys == {o.key : o \in storage}

\* LocalStorageAdapter.save: open(full_path, "wb") replaces what the key held;
\* the returned location is the key relative to the base path.
\* A save that returns the location without having written the object.
StorageSave_NotWritten(key, data) == storage

StorageSave(key, data) == {o \in storage : o.key # key} \cup {[key |-> key, data |-> data]}

\* A delete that answers and leaves the object where it is.
StorageDelete_Keeps(st, keys) == st

\* LocalStorageAdapter.delete: unlink when present, False when absent.
StorageDelete(st, keys) == {o \in st : o.key \notin keys}

\* What LocalStorageAdapter.delete returns for the key.
StorageDeleteReturns(key) == key \in StorageKeys

StorageExists(key) == key \in StorageKeys

\* ------------------------------------------------------ upload_image
\* The request ends with an HTTP status; stage keeps the step it ended in.
Finish(w, code, out) ==
    [up[w] EXCEPT !.pc = IF code = 201 THEN "done" ELSE "failed",
                  !.status = code, !.out = out, !.pending = <<>>, !.idx = 0,
                  !.tenant_id = 0, !.asset_id = 0, !.stage = up[w].pc]

AssetOut(id) ==
    LET a == CHOOSE x \in AssetById(id) : TRUE
    IN  [id |-> a.id, tenant_id |-> a.tenant_id, renditions |-> RenditionsOf(id)]

\* An exact-match lookup that only finds assets of the tenant named.
UploadStart_TenantScoped(w, f, t) ==
    /\ up[w].pc = "idle"
    /\ started' = [started EXCEPT !.uploads = @ + 1]
    /\ LET req == [IdleUpload EXCEPT !.file = f, !.tenant = t]
           hit == {a \in ExistingAsset(compute_content_hash[f]) :
                      \E x \in TenantByName(t) : x.id = a.tenant_id}
       IN  up' = [up EXCEPT ![w] =
                IF FileLen[f] > MAX_UPLOAD_BYTES
                    THEN [req EXCEPT !.pc = "failed", !.status = 413, !.stage = "size"]
                ELSE IF hit # {}
                    THEN [req EXCEPT !.pc = "existing",
                                     !.asset_id = (CHOOSE a \in hit : TRUE).id]
                ELSE IF ~Decodable[f]
                    THEN [req EXCEPT !.pc = "failed", !.status = 400, !.stage = "decode"]
                ELSE IF ~Loadable[f]
                    THEN [req EXCEPT !.pc = "failed", !.status = 500, !.stage = "phash"]
                ELSE [req EXCEPT !.pc = "tenant", !.missed = TRUE]]
    /\ UNCHANGED <<tenants, assets, renditions, storage, seq, fkEnforced, calc, pg, writeFaults>>

\* Lines 53-89 up to the tenant lookup: size check, exact-match lookup, decode.
UploadStart(w, f, t) ==
    /\ up[w].pc = "idle"
    /\ started' = [started EXCEPT !.uploads = @ + 1]
    /\ LET req == [IdleUpload EXCEPT !.file = f, !.tenant = t]
           hit == ExistingAsset(compute_content_hash[f])
       IN  up' = [up EXCEPT ![w] =
                IF FileLen[f] > MAX_UPLOAD_BYTES
                    THEN [req EXCEPT !.pc = "failed", !.status = 413, !.stage = "size"]
                ELSE IF hit # {}
                    THEN [req EXCEPT !.pc = "existing",
                                     !.asset_id = (CHOOSE a \in hit : TRUE).id]
                ELSE IF ~Decodable[f]
                    THEN [req EXCEPT !.pc = "failed", !.status = 400, !.stage = "decode"]
                ELSE IF ~Loadable[f]
                    THEN [req EXCEPT !.pc = "failed", !.status = 500, !.stage = "phash"]
                ELSE [req EXCEPT !.pc = "tenant", !.missed = TRUE]]
    /\ UNCHANGED <<tenants, assets, renditions, storage, seq, fkEnforced, calc, pg, writeFaults>>

\* Lines 70-73: refresh the asset found and return it with its renditions.
UploadReturnExisting(w) ==
    /\ up[w].pc = "existing"
    /\ up' = [up EXCEPT ![w] =
            IF AssetById(up[w].asset_id) = {}
                THEN Finish(w, 500, NoOut)
                ELSE Finish(w, 201, AssetOut(up[w].asset_id))]
    /\ UNCHANGED <<tenants, assets, renditions, storage, seq, fkEnforced, calc, pg, started,
                   writeFaults>>

\* get_or_create_tenant, the select.
TenantSelect(w) ==
    /\ up[w].pc = "tenant"
    /\ LET found == TenantByName(up[w].tenant)
       IN  up' = [up EXCEPT ![w] =
                IF found # {}
                    THEN [up[w] EXCEPT !.pc = "asset",
                                       !.tenant_id = (CHOOSE x \in found : TRUE).id]
                    ELSE [up[w] EXCEPT !.pc = "tenant_insert"]]
    /\ UNCHANGED <<tenants, assets, renditions, storage, seq, fkEnforced, calc, pg, started,
                   writeFaults>>

\* get_or_create_tenant, db.add(tenant) and commit.
TenantInsert(w) ==
    /\ up[w].pc = "tenant_insert"
    /\ IF TenantInsertAllowed(up[w].tenant)
         THEN /\ tenants' = tenants \cup {[id |-> seq.tenant, name |-> up[w].tenant]}
              /\ seq' = [seq EXCEPT !.tenant = @ + 1]
              /\ up' = [up EXCEPT ![w] = [up[w] EXCEPT !.pc = "asset",
                                                       !.tenant_id = seq.tenant]]
         ELSE /\ UNCHANGED <<tenants, seq>>
              /\ up' = [up EXCEPT ![w] = Finish(w, 500, NoOut)]
    /\ UNCHANGED <<assets, renditions, storage, fkEnforced, calc, pg, started, writeFaults>>

\* An insert that replaces the row holding the same content_hash.
AssetInsert_Replaces(w) ==
    /\ up[w].pc = "asset"
    /\ assets' = (assets \ AssetByHash(compute_content_hash[up[w].file])) \cup
                    {[id |-> seq.asset, tenant_id |-> up[w].tenant_id,
                      content_hash |-> compute_content_hash[up[w].file],
                      phash |-> OriginalPhash[up[w].file], in_use_count |-> 0]}
    /\ seq' = [seq EXCEPT !.asset = @ + 1]
    /\ up' = [up EXCEPT ![w] = [up[w] EXCEPT !.pc = "presets", !.asset_id = seq.asset,
                                             !.idx = 1]]
    /\ UNCHANGED <<tenants, renditions, storage, fkEnforced, calc, pg, started, writeFaults>>

\* Lines 91-104: db.add(asset), commit, refresh.
AssetInsert(w) ==
    /\ up[w].pc = "asset"
    /\ LET h == compute_content_hash[up[w].file]
       IN  IF AssetInsertAllowed(h)
             THEN /\ assets' = assets \cup
                        {[id |-> seq.asset, tenant_id |-> up[w].tenant_id,
                          content_hash |-> h, phash |-> OriginalPhash[up[w].file],
                          in_use_count |-> 0]}
                  /\ seq' = [seq EXCEPT !.asset = @ + 1]
                  /\ up' = [up EXCEPT ![w] = [up[w] EXCEPT !.pc = "presets",
                                                           !.asset_id = seq.asset,
                                                           !.idx = 1]]
             ELSE /\ UNCHANGED <<assets, seq>>
                  /\ up' = [up EXCEPT ![w] = Finish(w, 500, NoOut)]
    /\ UNCHANGED <<tenants, renditions, storage, fkEnforced, calc, pg, started, writeFaults>>


\* Lines 113-126: the renditions of the preset owned by other assets whose
\* stored hash is within the threshold of the new asset's hash.  The select
\* has no ORDER BY, so the row the loop meets first is any one of them.
ReuseCandidates_AnyPreset(preset, phash, asset_id) ==
    {r \in renditions : /\ r.asset_id # asset_id
                        /\ is_near_duplicate(phash, r.phash)}

ReuseCandidates(preset, phash, asset_id) ==
    {r \in renditions : /\ r.preset = preset
                        /\ r.asset_id # asset_id
                        /\ is_near_duplicate(phash, r.phash)}

\* A reused row that loses the byte size of the object it points at.
ReusedRow_NoSize(asset_id, preset, r) ==
    [asset_id |-> asset_id, preset |-> preset, url |-> r.url, size_bytes |-> 0,
     width |-> r.width, height |-> r.height, quality |-> r.quality, phash |-> r.phash]

\* Lines 130-139: the new row copies the reused one.
ReusedRow(asset_id, preset, r) ==
    [asset_id |-> asset_id, preset |-> preset, url |-> r.url, size_bytes |-> r.size_bytes,
     width |-> r.width, height |-> r.height, quality |-> r.quality, phash |-> r.phash]

\* Lines 144-166: the row of a newly generated rendition.
GeneratedRow(asset_id, preset, f) ==
    LET g == generate_rendition_bytes(f, preset)
    IN  [asset_id |-> asset_id, preset |-> preset,
         url |-> storage_key(compute_content_hash[f], preset), size_bytes |-> g.size,
         width |-> g.width, height |-> g.height, quality |-> RENDITION_QUALITY,
         phash |-> RenditionPhash(f, preset)]

AfterPreset(w, row) ==
    [up[w] EXCEPT !.pending = Append(@, row),
                  !.idx = IF @ = Len(PRESETS) THEN 0 ELSE @ + 1,
                  !.pc = IF up[w].idx = Len(PRESETS) THEN "commit" ELSE "presets"]

\* One iteration of the loop of lines 110-168, reusing.
PresetReuse(w) ==
    /\ up[w].pc = "presets"
    /\ LET preset == PRESETS[up[w].idx]
       IN  \E r \in ReuseCandidates(preset, OriginalPhash[up[w].file], up[w].asset_id) :
               up' = [up EXCEPT ![w] = AfterPreset(w, ReusedRow(up[w].asset_id, preset, r))]
    /\ UNCHANGED <<tenants, assets, renditions, storage, seq, fkEnforced, calc, pg, started,
                   writeFaults>>

\* One iteration of the loop of lines 110-168, generating and saving.
PresetGenerate(w) ==
    /\ up[w].pc = "presets"
    /\ LET preset == PRESETS[up[w].idx]
           f == up[w].file
       IN  /\ ReuseCandidates(preset, OriginalPhash[f], up[w].asset_id) = {}
           /\ storage' = StorageSave(storage_key(compute_content_hash[f], preset),
                                     generate_rendition_bytes(f, preset).bytes)
           /\ up' = [up EXCEPT ![w] = AfterPreset(w, GeneratedRow(up[w].asset_id, preset, f))]
    /\ UNCHANGED <<tenants, assets, renditions, seq, fkEnforced, calc, pg, started, writeFaults>>

\* storage.save raises at line 154: nothing catches it, the request ends and
\* its session is closed with the pending rows uncommitted.  The save failed
\* before it opened the object (nothing is written) or while writing it (the
\* key holds a truncated object).
PresetWriteFails(w) ==
    /\ up[w].pc = "presets"
    /\ writeFaults < MaxWriteFaults
    /\ ReuseCandidates(PRESETS[up[w].idx], OriginalPhash[up[w].file], up[w].asset_id) = {}
    /\ writeFaults' = writeFaults + 1
    /\ \E written \in BOOLEAN :
          storage' = IF written
                        THEN StorageSave(storage_key(compute_content_hash[up[w].file],
                                                     PRESETS[up[w].idx]), <<"truncated">>)
                        ELSE storage
    /\ up' = [up EXCEPT ![w] = Finish(w, 500, NoOut)]
    /\ UNCHANGED <<tenants, assets, renditions, seq, fkEnforced, calc, pg, started>>

\* Index idx_rendition_asset_preset is unique on (asset_id, preset).
RenditionInsertAllowed_NoIndex(rows) == TRUE

RenditionInsertAllowed(rows) ==
    \A r \in rows : ~\E x \in renditions \cup (rows \ {r}) :
                        x.asset_id = r.asset_id /\ x.preset = r.preset

WithId(row, id) ==
    [id |-> id, asset_id |-> row.asset_id, preset |-> row.preset, url |-> row.url,
     size_bytes |-> row.size_bytes, width |-> row.width, height |-> row.height,
     quality |-> row.quality, phash |-> row.phash]

\* A commit that persists the first pending row and loses the others.
RenditionsCommit_FirstRowOnly(w) ==
    /\ up[w].pc = "commit"
    /\ renditions' = renditions \cup {WithId(up[w].pending[1], seq.rendition)}
    /\ seq' = [seq EXCEPT !.rendition = @ + 1]
    /\ up' = [up EXCEPT ![w] = [up[w] EXCEPT !.pc = "refresh", !.pending = <<>>]]
    /\ UNCHANGED <<tenants, assets, storage, fkEnforced, calc, pg, started, writeFaults>>

\* Line 170: the commit that inserts the rows added in the loop.  A row whose
\* asset is gone violates renditions.asset_id -> assets.id where the backend
\* enforces foreign keys.
RenditionsCommit(w) ==
    /\ up[w].pc = "commit"
    /\ LET rows == {WithId(up[w].pending[i], seq.rendition + i - 1) :
                        i \in 1..Len(up[w].pending)}
           ok == /\ RenditionInsertAllowed(rows)
                 /\ (fkEnforced => AssetById(up[w].asset_id) # {})
       IN  /\ renditions' = IF ok THEN renditions \cup rows ELSE renditions
           /\ seq' = IF ok THEN [seq EXCEPT !.rendition = @ + Len(up[w].pending)] ELSE seq
           /\ up' = [up EXCEPT ![w] =
                    IF ok THEN [up[w] EXCEPT !.pc = "refresh", !.pending = <<>>]
                          ELSE Finish(w, 500, NoOut)]
    /\ UNCHANGED <<tenants, assets, storage, fkEnforced, calc, pg, started, writeFaults>>

\* Lines 172-175: refresh the asset with its renditions and answer.
UploadFinish(w) ==
    /\ up[w].pc = "refresh"
    /\ up' = [up EXCEPT ![w] =
            IF AssetById(up[w].asset_id) = {}
                THEN Finish(w, 500, NoOut)
                ELSE Finish(w, 201, AssetOut(up[w].asset_id))]
    /\ UNCHANGED <<tenants, assets, renditions, storage, seq, fkEnforced, calc, pg, started,
                   writeFaults>>

\* --------------------------------------------------------- get_asset
get_asset(asset_id) ==
    IF AssetById(asset_id) = {}
        THEN [status |-> 404, out |-> NoOut]
        ELSE [status |-> 200, out |-> AssetOut(asset_id)]

\* ------------------------------------------------------ purge_assets
TokenAccepted_TokenAlways(dry_run, token) == token = PURGE_CONFIRM_TOKEN

TokenAccepted_AnyToken(dry_run, token) == dry_run \/ token # "none"

\* Lines 261-262.
TokenAccepted(dry_run, token) ==
    dry_run \/ (token # "none" /\ token = PURGE_CONFIRM_TOKEN)

PurgeCandidates_All == assets

\* Lines 269-272: select(Asset).where(Asset.in_use_count == 0).
PurgeCandidates == {a \in assets : a.in_use_count = 0}

SetMin(S) == CHOOSE x \in S : \A y \in S : x <= y

\* Lines 261-284: token check, candidate select, dry-run answer; limit is the
\* number of purge requests of the run.
PurgeStartWithin(limit, dry_run, token) ==
    /\ pg.pc \in {"idle", "done", "failed"}
    /\ started.purges < limit
    /\ started' = [started EXCEPT !.purges = @ + 1]
    /\ LET req == [IdlePurge EXCEPT !.dry_run = dry_run, !.token = token]
           ids == {a.id : a \in PurgeCandidates}
           found == [req EXCEPT !.candidates = ids,
                                !.hashes = {a.content_hash : a \in PurgeCandidates}]
       IN  pg' = IF ~TokenAccepted(dry_run, token)
                    THEN [req EXCEPT !.pc = "failed", !.status = 400]
                 ELSE IF dry_run
                    THEN [found EXCEPT !.pc = "done", !.status = 200, !.candidates = {}]
                 ELSE [found EXCEPT !.pc = IF ids = {} THEN "commit" ELSE "deleting",
                                    !.todo = ids]
    /\ UNCHANGED <<tenants, assets, renditions, storage, seq, fkEnforced, calc, up, writeFaults>>

PurgeStart(dry_run, token) == PurgeStartWithin(MaxPurges, dry_run, token)

\* Lines 286-296, one candidate: load its renditions, delete their storage
\* objects, mark the asset (and the renditions loaded) for deletion.
PurgeAsset ==
    /\ pg.pc = "deleting"
    /\ LET a == SetMin(pg.todo)
           rows == RenditionsOf(a)
       IN  /\ storage' = StorageDelete(storage, {r.url : r \in rows})
           /\ pg' = [pg EXCEPT !.todo = @ \ {a},
                               !.marked = @ \cup {r.id : r \in rows},
                               !.deleted_count = @ + 1,
                               !.pc = IF pg.todo = {a} THEN "commit" ELSE "deleting"]
    /\ UNCHANGED <<tenants, assets, renditions, seq, fkEnforced, calc, up, started, writeFaults>>

\* A storage delete that raises, not swallowed: the request ends with an error.
PurgeAssetDeleteAborts ==
    /\ pg.pc = "deleting"
    /\ LET a == SetMin(pg.todo)
           rows == RenditionsOf(a)
       IN  /\ rows # {}
           /\ \E failed \in SUBSET {r.url : r \in rows} :
                 /\ failed # {}
                 /\ storage' = storage
                 /\ pg' = [pg EXCEPT !.pc = "failed", !.status = 500, !.todo = {},
                                     !.undeleted = @ \cup failed]
    /\ UNCHANGED <<tenants, assets, renditions, seq, fkEnforced, calc, up, started, writeFaults>>

\* A candidate whose storage delete raised is not counted.
PurgeAssetDeleteFails_NotCounted ==
    /\ pg.pc = "deleting"
    /\ LET a == SetMin(pg.todo)
           rows == RenditionsOf(a)
       IN  /\ rows # {}
           /\ \E failed \in SUBSET {r.url : r \in rows} :
                 /\ failed # {}
                 /\ storage' = StorageDelete(storage, {r.url : r \in rows} \ failed)
                 /\ pg' = [pg EXCEPT !.todo = @ \ {a},
                                     !.marked = @ \cup {r.id : r \in rows},
                                     !.undeleted = @ \cup failed,
                                     !.pc = IF pg.todo = {a} THEN "commit" ELSE "deleting"]
    /\ UNCHANGED <<tenants, assets, renditions, seq, fkEnforced, calc, up, started, writeFaults>>

\* Lines 286-296 when storage.delete raises for some of the candidate's
\* renditions (lines 289-292): the exception is passed over, the object stays,
\* and the loop goes on as in PurgeAsset.
PurgeAssetDeleteFails ==
    /\ pg.pc = "deleting"
    /\ LET a == SetMin(pg.todo)
           rows == RenditionsOf(a)
       IN  /\ rows # {}
           /\ \E failed \in SUBSET {r.url : r \in rows} :
                 /\ failed # {}
                 /\ storage' = StorageDelete(storage, {r.url : r \in rows} \ failed)
                 /\ pg' = [pg EXCEPT !.todo = @ \ {a},
                                     !.marked = @ \cup {r.id : r \in rows},
                                     !.deleted_count = @ + 1,
                                     !.undeleted = @ \cup failed,
                                     !.pc = IF pg.todo = {a} THEN "commit" ELSE "deleting"]
    /\ UNCHANGED <<tenants, assets, renditions, seq, fkEnforced, calc, up, started, writeFaults>>

\* The key the backend gives the next row of a table.  An Integer primary key
\* is a serial on PostgreSQL and the rowid on SQLite, which is one more than
\* the largest key in the table: the key of a deleted last row is given again.
MaxId(rows) == IF rows = {} THEN 0 ELSE CHOOSE n \in {r.id : r \in rows} :
                                            \A r \in rows : r.id <= n

SeqAfterDelete(as, rs) ==
    IF fkEnforced THEN seq
    ELSE [seq EXCEPT !.asset = MaxId(as) + 1, !.rendition = MaxId(rs) + 1]

\* The rows the commit of line 298 deletes: the candidates as listed.
DeletedAssets == {a \in assets : a.id \in pg.candidates}

\* Line 298: the commit flushes the deletes of the marked renditions and of
\* the candidate assets.  A rendition committed for a candidate after its
\* renditions were loaded still references it.
PurgeCommit ==
    /\ pg.pc = "commit"
    /\ LET strays == {r \in renditions : r.asset_id \in pg.candidates /\ r.id \notin pg.marked}
           gone == DeletedAssets
       IN  IF fkEnforced /\ strays # {}
             THEN /\ UNCHANGED <<assets, renditions, seq>>
                  /\ pg' = [pg EXCEPT !.pc = "failed", !.status = 500, !.marked = {},
                                      !.candidates = {}, !.hashes = {},
                                      !.deleted_count = 0]
             ELSE /\ assets' = assets \ gone
                  /\ renditions' = {r \in renditions : r.id \notin pg.marked}
                  /\ seq' = SeqAfterDelete(assets \ gone,
                                           {r \in renditions : r.id \notin pg.marked})
                  /\ pg' = [pg EXCEPT !.pc = "done", !.status = 200, !.marked = {},
                                      !.candidates = {}]
    /\ UNCHANGED <<tenants, storage, fkEnforced, calc, up, started, writeFaults>>

\* ---------------------------------------------------- the environment
\* A catalog entry is attached to / detached from an asset: the external
\* collaborator's update of Asset.in_use_count.
Attach(id) ==
    /\ \E a \in AssetById(id) :
          /\ a.in_use_count < MaxInUse
          /\ assets' = (assets \ {a}) \cup {[a EXCEPT !.in_use_count = @ + 1]}
    /\ UNCHANGED <<tenants, renditions, storage, seq, fkEnforced, calc, up, pg, started, writeFaults>>

Detach(id) ==
    /\ \E a \in AssetById(id) :
          /\ a.in_use_count > 0
          /\ assets' = (assets \ {a}) \cup {[a EXCEPT !.in_use_count = @ - 1]}
    /\ UNCHANGED <<tenants, renditions, storage, seq, fkEnforced, calc, up, pg, started, writeFaults>>

Next ==
    \/ \E w \in Workers, f \in Files : UploadStart(w, f, "t1")
    \/ \E w \in Workers : UploadReturnExisting(w)
    \/ \E w \in Workers : TenantSelect(w)
    \/ \E w \in Workers : TenantInsert(w)
    \/ \E w \in Workers : AssetInsert(w)
    \/ \E w \in Workers : PresetReuse(w)
    \/ \E w \in Workers : PresetGenerate(w)
    \/ \E w \in Workers : RenditionsCommit(w)
    \/ \E w \in Workers : UploadFinish(w)
    \/ \E dry_run \in BOOLEAN, token \in Tokens : PurgeStart(dry_run, token)
    \/ PurgeAsset
    \/ PurgeCommit
    \/ \E a \in assets : Attach(a.id)
    \/ \E a \in assets : Detach(a.id)

Spec == Init /\ [][Next]_vars

\* The same system with a storage backend whose writes can fail.
NextFaults == Next \/ \E w \in Workers : PresetWriteFails(w)

SpecFaults == Init /\ [][NextFaults]_vars

\* The same system when nothing else runs while a confirmed purge is between
\* its candidate select and its commit.
PurgeRunning == pg.pc \in {"deleting", "commit"}

NextQuiet ==
    \/ PurgeRunning /\ (PurgeAsset \/ PurgeCommit)
    \/ ~PurgeRunning /\ Next

SpecQuiet == Init /\ [][NextQuiet]_vars

\* Ingestion alone, on a storage backend whose writes can fail: uploads that
\* overlap in every way, no purge and no change of the reference counters.
NextIngest ==
    \/ \E w \in Workers, f \in Files : UploadStart(w, f, "t1")
    \/ \E w \in Workers : UploadReturnExisting(w)
    \/ \E w \in Workers : TenantSelect(w)
    \/ \E w \in Workers : TenantInsert(w)
    \/ \E w \in Workers : AssetInsert(w)
    \/ \E w \in Workers : PresetReuse(w)
    \/ \E w \in Workers : PresetGenerate(w)
    \/ \E w \in Workers : PresetWriteFails(w)
    \/ \E w \in Workers : RenditionsCommit(w)
    \/ \E w \in Workers : UploadFinish(w)

SpecIngest == Init /\ [][NextIngest]_vars

\* One client that issues its requests one after the other: a request that
\* was answered is followed by the next.
UploadAgainWithin(limit, w) ==
    /\ up[w].pc \in {"done", "failed"}
    /\ started.uploads < limit
    /\ up' = [up EXCEPT ![w] = IdleUpload]
    /\ UNCHANGED <<tenants, assets, renditions, storage, seq, fkEnforced, calc, pg, started,
                   writeFaults>>

UploadAgain(w) == UploadAgainWithin(MaxUploads, w)

NextSerial ==
    \/ \E f \in SerialFiles : UploadStart("w1", f, "t1")
    \/ UploadReturnExisting("w1")
    \/ TenantSelect("w1")
    \/ TenantInsert("w1")
    \/ AssetInsert("w1")
    \/ PresetReuse("w1")
    \/ PresetGenerate("w1")
    \/ RenditionsCommit("w1")
    \/ UploadFinish("w1")
    \/ UploadAgain("w1")

SpecSerial == Init /\ [][NextSerial]_vars

\* That client also purges, and catalog entries are attached and detached,
\* one operation after the other; the storage deletes of a purge can fail.
SerialIdle == up["w1"].pc \in {"idle", "done", "failed"} /\ pg.pc \in {"idle", "done", "failed"}

PurgeFiles == {"fA", "fB", "fC"}

NextSerialPurge ==
    \/ pg.pc \in {"idle", "done", "failed"} /\ \E f \in PurgeFiles : UploadStart("w1", f, "t1")
    \/ UploadReturnExisting("w1")
    \/ TenantSelect("w1")
    \/ TenantInsert("w1")
    \/ AssetInsert("w1")
    \/ PresetReuse("w1")
    \/ PresetGenerate("w1")
    \/ RenditionsCommit("w1")
    \/ UploadFinish("w1")
    \/ pg.pc \in {"idle", "done", "failed"} /\ UploadAgainWithin(MaxSerialUploads, "w1")
    \/ SerialIdle /\ \E dry_run \in BOOLEAN, token \in Tokens :
                        PurgeStartWithin(MaxSerialPurges, dry_run, token)
    \/ PurgeAsset
    \/ PurgeAssetDeleteFails
    \/ PurgeCommit
    \/ SerialIdle /\ \E a \in assets : Attach(a.id)
    \/ SerialIdle /\ \E a \in assets : Detach(a.id)

SpecSerialPurge == Init /\ [][NextSerialPurge]_vars

\* Uploads of two clients that name either tenant and overlap in every way;
\* no purge, no change of the reference counters.
TenantFiles == {"fA", "fB", "fBig"}

NextTenants ==
    \/ \E w \in Workers, f \in TenantFiles, t \in TenantNames : UploadStart(w, f, t)
    \/ \E w \in Workers : UploadReturnExisting(w)
    \/ \E w \in Workers : TenantSelect(w)
    \/ \E w \in Workers : TenantInsert(w)
    \/ \E w \in Workers : AssetInsert(w)
    \/ \E w \in Workers : PresetReuse(w)
    \/ \E w \in Workers : PresetGenerate(w)
    \/ \E w \in Workers : RenditionsCommit(w)
    \/ \E w \in Workers : UploadFinish(w)
    \/ \E w \in Workers : UploadAgainWithin(MaxSerialUploads, w)

SpecTenants == Init /\ [][NextTenants]_vars

\* A client that asks for a dry run, keeps the answer, and confirms the purge
\* at once: the tables are filled before the first purge request, and nothing
\* but the confirmed purge follows the dry run whose answer was kept.
PurgeAnswer == [dry_run |-> pg.dry_run, candidates |-> pg.hashes,
                deleted_count |-> pg.deleted_count]

ClientKeepsAnswer ==
    /\ calc.pc = "idle"
    /\ pg.pc = "done"
    /\ pg.dry_run
    /\ calc' = [fn |-> "purge_assets", args |-> <<pg.dry_run, pg.token>>, pc |-> "return",
                result |-> PurgeAnswer]
    /\ UNCHANGED <<tenants, assets, renditions, storage, seq, fkEnforced, up, pg, started,
                   writeFaults>>

NextPredict ==
    \/ started.purges = 0 /\ \E f \in PurgeFiles : UploadStart("w1", f, "t1")
    \/ UploadReturnExisting("w1")
    \/ TenantSelect("w1")
    \/ TenantInsert("w1")
    \/ AssetInsert("w1")
    \/ PresetReuse("w1")
    \/ PresetGenerate("w1")
    \/ RenditionsCommit("w1")
    \/ UploadFinish("w1")
    \/ started.purges = 0 /\ UploadAgainWithin(MaxSerialUploads, "w1")
    \/ started.purges = 0 /\ SerialIdle /\ \E a \in assets : Attach(a.id)
    \/ started.purges = 0 /\ SerialIdle /\ \E a \in assets : Detach(a.id)
    \/ calc.pc = "idle" /\ SerialIdle /\ \E token \in Tokens :
                        PurgeStartWithin(MaxSerialPurges, TRUE, token)
    \/ ClientKeepsAnswer
    \/ calc.pc = "return" /\ pg.pc = "done" /\ pg.dry_run /\ \E token \in Tokens :
                        PurgeStartWithin(MaxSerialPurges, FALSE, token)
    \/ PurgeAsset
    \/ PurgeAssetDeleteFails
    \/ PurgeCommit

SpecPredict == Init /\ [][NextPredict]_vars

\* ------------------------------------------------ direct function calls
\* hamming_distance called on its own, on every pair of hex strings of up to
\* MaxHashLen digits drawn from HashDigits.
HashDigits == {0, 1, 7, 8, 15}

RECURSIVE HexStrings(_)
HexStrings(n) ==
    IF n = 0 THEN {<<>>}
    ELSE {<<d>> \o h : d \in HashDigits, h \in HexStrings(n - 1)}

Hashes == UNION {HexStrings(n) : n \in 1..MaxHashLen}

InitHamming ==
    /\ calc \in {[fn |-> "hamming_distance", args |-> <<a, b>>, pc |-> "call", result |-> 0] :
                    a \in Hashes, b \in Hashes}
    /\ tenants = {}
    /\ assets = {}
    /\ renditions = {}
    /\ storage = {}
    /\ seq = [tenant |-> 1, asset |-> 1, rendition |-> 1]
    /\ fkEnforced = FALSE
    /\ up = [w \in Workers |-> IdleUpload]
    /\ pg = IdlePurge
    /\ started = [uploads |-> 0, purges |-> 0]
    /\ writeFaults = 0

HammingDistanceCall ==
    /\ calc.fn = "hamming_distance"
    /\ calc.pc = "call"
    /\ calc' = [calc EXCEPT !.pc = "return",
                            !.result = hamming_distance(calc.args[1], calc.args[2])]
    /\ UNCHANGED <<tenants, assets, renditions, storage, seq, fkEnforced, up, pg, started,
                   writeFaults>>

NextHamming == HammingDistanceCall

SpecHamming == InitHamming /\ [][NextHamming]_vars


\* compare_image.  The quality metric size_bytes / (width * height) is kept
\* as the fraction <<numerator, denominator>>.
compute_quality_metric(width, height, size_bytes) ==
    IF width = 0 \/ height = 0 THEN <<0, 1>> ELSE <<size_bytes, width * height>>

MetricLess(a, b) == a[1] * b[2] < b[1] * a[2]

\* The loop of compare_image stopped before the last preset.
CompareResults_SkipLast(f) ==
    [i \in 1..(Len(PRESETS) - 1) |->
        LET g == generate_rendition_bytes(f, PRESETS[i])
        IN  [preset |-> PRESETS[i], size_bytes |-> g.size, width |-> g.width,
             height |-> g.height,
             quality_metric |-> compute_quality_metric(g.width, g.height, g.size)]]

CompareResults(f) ==
    [i \in 1..Len(PRESETS) |->
        LET g == generate_rendition_bytes(f, PRESETS[i])
        IN  [preset |-> PRESETS[i], size_bytes |-> g.size, width |-> g.width,
             height |-> g.height,
             quality_metric |-> compute_quality_metric(g.width, g.height, g.size)]]

\* max(results, key=...): the first result that no other result exceeds.
Recommended(results) ==
    LET i == CHOOSE i \in 1..Len(results) :
                 /\ \A j \in 1..Len(results) :
                       ~MetricLess(results[i].quality_metric, results[j].quality_metric)
                 /\ \A j \in 1..(i - 1) :
                       MetricLess(results[j].quality_metric, results[i].quality_metric)
    IN  results[i].preset

CompareFailed(code) == [status |-> code, results |-> <<>>, recommended |-> "none"]

\* The request arrives and its body is read.
CompareStart(f) ==
    /\ calc.pc = "idle"
    /\ calc' = [fn |-> "compare_image", args |-> <<f>>, pc |-> "call", result |-> 0]
    /\ UNCHANGED <<tenants, assets, renditions, storage, seq, fkEnforced, up, pg, started,
                   writeFaults>>

\* Lines 210-247: size check, open, one rendition per preset, recommendation.
\* A file cut short opens and then fails in image.copy() of
\* generate_rendition_bytes, which nothing catches.
CompareReturn ==
    /\ calc.fn = "compare_image"
    /\ calc.pc = "call"
    /\ LET f == calc.args[1]
           out == IF FileLen[f] > MAX_UPLOAD_BYTES THEN CompareFailed(413)
                  ELSE IF ~Decodable[f] THEN CompareFailed(400)
                  ELSE IF ~Loadable[f] THEN CompareFailed(500)
                  ELSE [status |-> 200, results |-> CompareResults(f),
                        recommended |-> Recommended(CompareResults(f))]
       IN  calc' = [calc EXCEPT !.pc = "return", !.result = out]
    /\ UNCHANGED <<tenants, assets, renditions, storage, seq, fkEnforced, up, pg, started,
                   writeFaults>>

\* The client has its answer and may issue its next request.
CompareAgain ==
    /\ calc.fn = "compare_image"
    /\ calc.pc = "return"
    /\ calc' = IdleCalc
    /\ UNCHANGED <<tenants, assets, renditions, storage, seq, fkEnforced, up, pg, started,
                   writeFaults>>

\* One client that uploads and compares, one request after the other.
NextCompare ==
    \/ \E f \in Files : calc.pc = "idle" /\ UploadStart("w1", f, "t1")
    \/ UploadReturnExisting("w1")
    \/ TenantSelect("w1")
    \/ TenantInsert("w1")
    \/ AssetInsert("w1")
    \/ PresetReuse("w1")
    \/ PresetGenerate("w1")
    \/ RenditionsCommit("w1")
    \/ UploadFinish("w1")
    \/ UploadAgainWithin(MaxSerialUploads, "w1")
    \/ \E f \in Files : up["w1"].pc \in {"idle", "done", "failed"} /\ CompareStart(f)
    \/ CompareReturn
    \/ CompareAgain

SpecCompare == Init /\ [][NextCompare]_vars

\* compute_phash from the samples on (lines 39-54), called on its own.  The
\* samples are those of the image resized to hash_size x hash_size and
\* converted to grayscale, in the row-major order of getdata().
RECURSIVE SumSeq(_)
SumSeq(s) == IF s = <<>> THEN 0 ELSE Head(s) + SumSeq(Tail(s))

\* pixel >= avg in place of pixel > avg.
SampleBit_AtLeast(pixel, total, count) == IF pixel * count >= total THEN 1 ELSE 0

\* 1 if pixel > avg else 0, with avg = total / count.
SampleBit(pixel, total, count) == IF pixel * count > total THEN 1 ELSE 0

\* hash_int = (hash_int << 1) | bit, over the bits in order.
RECURSIVE BitsToInt(_, _)
BitsToInt(bits, hash_int) ==
    IF bits = <<>> THEN hash_int
    ELSE BitsToInt(Tail(bits), hash_int * 2 + Head(bits))

\* format(n, "x"): the hex digits of n, no leading zero.
RECURSIVE HexOf(_)
HexOf(n) == IF n < 16 THEN <<n>> ELSE HexOf(n \div 16) \o <<n % 16>>

\* format(n, "0{width}x"): padded on the left with zeros to width.
PadZero(h, width) ==
    IF Len(h) >= width THEN h ELSE [i \in 1..(width - Len(h)) |-> 0] \o h

compute_phash(pixels, hash_size) ==
    LET total == SumSeq(pixels)
        bits == [i \in 1..Len(pixels) |-> SampleBit(pixels[i], total, Len(pixels))]
    IN  PadZero(HexOf(BitsToInt(bits, 0)), (hash_size * hash_size) \div 4)

\* Grids of 2 x 2 samples over three gray levels and of 4 x 4 samples over two.
PhashInputs ==
    {<<px, 2>> : px \in [1..4 -> {0, 100, 200}]}
        \cup {<<px, 4>> : px \in [1..16 -> {10, 200}]}

InitPhash ==
    /\ calc \in {[fn |-> "compute_phash", args |-> in, pc |-> "call", result |-> <<>>] :
                    in \in PhashInputs}
    /\ tenants = {}
    /\ assets = {}
    /\ renditions = {}
    /\ storage = {}
    /\ seq = [tenant |-> 1, asset |-> 1, rendition |-> 1]
    /\ fkEnforced = FALSE
    /\ up = [w \in Workers |-> IdleUpload]
    /\ pg = IdlePurge
    /\ started = [uploads |-> 0, purges |-> 0]
    /\ writeFaults = 0

ComputePhashCall ==
    /\ calc.fn = "compute_phash"
    /\ calc.pc = "call"
    /\ calc' = [calc EXCEPT !.pc = "return",
                            !.result = compute_phash(calc.args[1], calc.args[2])]
    /\ UNCHANGED <<tenants, assets, renditions, storage, seq, fkEnforced, up, pg, started,
                   writeFaults>>

NextPhash == ComputePhashCall

SpecPhash == InitPhash /\ [][NextPhash]_vars

\* The storage adapter called on its own: save, delete and exists on a few
\* keys, in any order.  A call runs to its end before the next starts (the
\* adapter's coroutines have no await inside); calc keeps the call before.
AdapterKeys == {storage_key(compute_content_hash[f], p) : f \in {"fA", "fB"}, p \in {"thumb", "card"}}
AdapterData == {<<"fA", "thumb">>, <<"fB", "thumb">>}

NoCall == [fn |-> "none", args |-> <<>>, result |-> 0]

Called(fn, args, result) ==
    [fn |-> fn, args |-> args, pc |-> "return", result |-> result,
     prev |-> [fn |-> calc.fn, args |-> calc.args, result |-> calc.result]]

InitStorage ==
    /\ calc = [fn |-> "none", args |-> <<>>, pc |-> "idle", result |-> 0, prev |-> NoCall]
    /\ tenants = {}
    /\ assets = {}
    /\ renditions = {}
    /\ storage = {}
    /\ seq = [tenant |-> 1, asset |-> 1, rendition |-> 1]
    /\ fkEnforced = FALSE
    /\ up = [w \in Workers |-> IdleUpload]
    /\ pg = IdlePurge
    /\ started = [uploads |-> 0, purges |-> 0]
    /\ writeFaults = 0

StorageSaveCall(key, data) ==
    /\ storage' = StorageSave(key, data)
    /\ calc' = Called("save", <<key, data>>, key)
    /\ UNCHANGED <<tenants, assets, renditions, seq, fkEnforced, up, pg, started, writeFaults>>

StorageDeleteCall(key) ==
    /\ storage' = StorageDelete(storage, {key})
    /\ calc' = Called("delete", <<key>>, StorageDeleteReturns(key))
    /\ UNCHANGED <<tenants, assets, renditions, seq, fkEnforced, up, pg, started, writeFaults>>

StorageExistsCall(key) ==
    /\ storage' = storage
    /\ calc' = Called("exists", <<key>>, StorageExists(key))
    /\ UNCHANGED <<tenants, assets, renditions, seq, fkEnforced, up, pg, started, writeFaults>>

NextStorage ==
    \/ \E key \in AdapterKeys, data \in AdapterData : StorageSaveCall(key, data)
    \/ \E key \in AdapterKeys : StorageDeleteCall(key)
    \/ \E key \in AdapterKeys : StorageExistsCall(key)

SpecStorage == InitStorage /\ [][NextStorage]_vars


\* -------------------------------------------------------------- claims
InFlight(w) == up[w].pc \notin {"idle", "done", "failed"}
Answered(w) == up[w].pc \in {"done", "failed"}
HashOf(w) == compute_content_hash[up[w].file]

\* C1: no two Asset rows have the same content_hash, whatever the uploads
\* and however they interleave.
C1_ContentHashUnique ==
    \A a, b \in assets : a.content_hash = b.content_hash => a = b

\* Two requests for the same bytes both missed the exact-match lookup, one
\* inserted the asset and the other's insert was refused.
C1_Witness ==
    \E w1, w2 \in Workers :
        /\ w1 # w2
        /\ up[w1].file = up[w2].file
        /\ up[w1].missed /\ up[w2].missed
        /\ up[w1].pc = "failed" /\ up[w1].status = 500 /\ up[w1].stage = "asset"
        /\ up[w2].pc = "presets"
        /\ Cardinality({a \in assets : a.content_hash = HashOf(w1)}) = 1

\* C2: a request whose Asset insert meets a row with its content hash (it
\* lost the race) does not end in an error: it answers with the identifier
\* of the asset that is there.
C2_LoserReturnsWinner ==
    [][\A w \in Workers :
          (/\ up[w].pc = "asset"
           /\ up'[w].pc # "asset"
           /\ \E a \in assets : a.content_hash = HashOf(w))
          => /\ up'[w].pc # "failed"
             /\ \A a \in assets :
                   (a.content_hash = HashOf(w) /\ up'[w].pc = "done") => up'[w].out.id = a.id
      ]_vars

\* C3: an upload of bytes whose content hash is persisted takes the
\* exact-match path and changes no table and no storage object; when the
\* asset is still there as it answers, the answer is 201 with that asset's
\* identifier and the rendition rows the asset has.
C3_ReuploadIdempotent ==
    [][\A w \in Workers :
          /\ (/\ ~InFlight(w)
              /\ up'[w] # up[w]
              /\ FileLen[up'[w].file] <= MAX_UPLOAD_BYTES
              /\ \E a \in assets : a.content_hash = compute_content_hash[up'[w].file])
             => /\ up'[w].pc = "existing"
                /\ \E a \in assets : /\ a.content_hash = compute_content_hash[up'[w].file]
                                     /\ up'[w].asset_id = a.id
                /\ UNCHANGED <<tenants, assets, renditions, storage>>
          /\ (/\ up[w].pc = "existing"
              /\ up'[w] # up[w]
              /\ \E a \in assets : a.id = up[w].asset_id)
             => /\ up'[w].pc = "done"
                /\ up'[w].status = 201
                /\ up'[w].out.id = up[w].asset_id
                /\ up'[w].out.renditions = {r \in renditions : r.asset_id = up[w].asset_id}
                /\ UNCHANGED <<tenants, assets, renditions, storage>>
      ]_vars

\* A re-upload answered from the exact-match path with one rendition per
\* preset, while the first upload's answer is still at hand.
C3_Witness ==
    \E w1, w2 \in Workers :
        /\ w1 # w2
        /\ up[w1].pc = "done" /\ up[w1].missed
        /\ up[w2].pc = "done" /\ ~up[w2].missed
        /\ up[w1].file = up[w2].file
        /\ up[w1].out = up[w2].out
        /\ Cardinality(up[w2].out.renditions) = Len(PRESETS)

\* C4: an asset row is removed only when its in_use_count is 0 at the step
\* that removes it.
C4_NeverDeletesInUse ==
    [][\A a \in assets :
          (~\E b \in assets' : b.id = a.id) => a.in_use_count = 0
      ]_vars

C6_DryRunReadsOnly ==
    [][(started'.purges # started.purges /\ pg'.dry_run)
          => /\ pg'.pc = "done"
             /\ pg'.status = 200
             /\ pg'.deleted_count = 0
             /\ pg'.hashes = {a.content_hash : a \in {x \in assets : x.in_use_count = 0}}
             /\ UNCHANGED <<tenants, assets, renditions, storage>>
      ]_vars

\* A dry run without a token has listed a candidate and left it in place.
C6_Witness ==
    /\ pg.pc = "done"
    /\ pg.dry_run
    /\ pg.token # PURGE_CONFIRM_TOKEN
    /\ \E a \in assets : a.in_use_count = 0 /\ a.content_hash \in pg.hashes
    /\ \E a \in assets : a.in_use_count > 0 /\ a.content_hash \notin pg.hashes

\* C7: a purge that is not a dry run and whose token is missing or is not
\* PURGE_CONFIRM_TOKEN ends at once with status 400; no step of it changes a
\* table or a storage object.
C7_BadTokenRejected ==
    [][(pg' # pg /\ ~pg'.dry_run /\ pg'.token # PURGE_CONFIRM_TOKEN)
          => /\ pg'.pc = "failed"
             /\ pg'.status = 400
             /\ UNCHANGED <<tenants, assets, renditions, storage>>
      ]_vars

\* A purge with a wrong token was refused while an unused asset with stored
\* renditions was there to delete.
C7_Witness ==
    /\ pg.pc = "failed"
    /\ pg.status = 400
    /\ pg.token = "WRONG"
    /\ \E a \in assets : /\ a.in_use_count = 0
                         /\ \E r \in renditions : r.asset_id = a.id /\ StorageExists(r.url)

\* C8: once a purge has finished and no upload is in flight, the storage
\* location of every rendition row of every asset still exists.
C8_SharedObjectsSurvive ==
    (pg.pc = "done" /\ \A w \in Workers : ~InFlight(w))
        => \A r \in renditions :
              (\E a \in assets : a.id = r.asset_id) => StorageExists(r.url)

\* C9: the row a preset iteration adds has, for every other asset whose
\* original hash is within the threshold of the new asset's hash, the storage
\* location of that asset's persisted rendition for the preset.
C9_AliasesNearOriginal ==
    [][\A w \in Workers :
          (up[w].pc = "presets" /\ Len(up'[w].pending) = Len(up[w].pending) + 1)
          => LET preset == PRESETS[up[w].idx]
                 new == up'[w].pending[Len(up'[w].pending)]
             IN  \A a \in assets :
                    (/\ a.id # up[w].asset_id
                     /\ hamming_distance(OriginalPhash[up[w].file], a.phash)
                            <= PHASH_HAMMING_THRESHOLD)
                    => \A r \in renditions :
                          (r.asset_id = a.id /\ r.preset = preset) => new.url = r.url
      ]_vars

\* C9 (amended): the row a preset iteration adds aliases the location of a
\* persisted rendition of that preset, owned by another asset, whose stored
\* hash (the hash of the encoded rendition) is within the threshold of the
\* new asset's hash, boundary included; when there is none the row points at
\* the new asset's own key, whatever the originals' hashes are.
C9_AliasesNearRendition ==
    [][\A w \in Workers :
          (up[w].pc = "presets" /\ Len(up'[w].pending) = Len(up[w].pending) + 1)
          => LET preset == PRESETS[up[w].idx]
                 new == up'[w].pending[Len(up'[w].pending)]
                 near == {r \in renditions :
                             /\ r.preset = preset
                             /\ r.asset_id # up[w].asset_id
                             /\ hamming_distance(OriginalPhash[up[w].file], r.phash)
                                    <= PHASH_HAMMING_THRESHOLD}
             IN  /\ new.preset = preset
                 /\ IF near # {}
                      THEN new.url \in {r.url : r \in near}
                      ELSE new.url = storage_key(HashOf(w), preset)
      ]_vars

\* An upload has aliased another asset's rendition whose stored hash is at
\* exactly the threshold, and generated its own for a preset where the stored
\* hash is farther.
C9_Witness ==
    \E w \in Workers :
        /\ up[w].pc = "commit"
        /\ \E i, j \in DOMAIN up[w].pending :
              /\ up[w].pending[i].url # storage_key(HashOf(w), up[w].pending[i].preset)
              /\ hamming_distance(OriginalPhash[up[w].file], up[w].pending[i].phash)
                    = PHASH_HAMMING_THRESHOLD
              /\ up[w].pending[j].url = storage_key(HashOf(w), up[w].pending[j].preset)

\* C10: two assets whose original hashes differ by more than the threshold
\* have different storage locations for every preset.
C10_FarImagesIndependent ==
    \A a, b \in assets :
        (a.id # b.id /\ hamming_distance(a.phash, b.phash) > PHASH_HAMMING_THRESHOLD)
        => \A ra, rb \in renditions :
              (ra.asset_id = a.id /\ rb.asset_id = b.id /\ ra.preset = rb.preset)
              => ra.url # rb.url

C12_AssetReadWithRenditions ==
    /\ \A a \in assets :
          {r.preset : r \in get_asset(a.id).out.renditions} = PresetNames
    /\ \A w \in Workers :
          (up[w].pc = "done" /\ ~up[w].missed)
          => {r.preset : r \in up[w].out.renditions} = PresetNames

\* C13: no two Rendition rows have the same asset and preset.
C13_OneRenditionPerAssetPreset ==
    \A r1, r2 \in renditions :
        (r1.asset_id = r2.asset_id /\ r1.preset = r2.preset) => r1 = r2

\* The index refused the rows of an upload: its asset was purged while it
\* generated, the key was given to the next asset, and that asset's rows were
\* committed first.
C13_Witness ==
    /\ ~fkEnforced
    /\ \E w \in Workers :
          /\ up[w].pc = "failed" /\ up[w].stage = "commit" /\ up[w].status = 500
          /\ \E a \in assets :
                /\ a.content_hash # HashOf(w)
                /\ {r.preset : r \in RenditionsOf(a.id)} = PresetNames

\* C14: an upload longer than MAX_UPLOAD_BYTES, or whose bytes do not decode
\* as an image, ends at once with a client error (4xx) and changes no table
\* and no storage object; the oversized one is refused for its size.
C14_BadUploadIsClientError ==
    [][\A w \in Workers :
          (/\ up[w].pc = "idle"
           /\ up'[w].pc # "idle"
           /\ \/ FileLen[up'[w].file] > MAX_UPLOAD_BYTES
              \/ ~(Decodable[up'[w].file] /\ Loadable[up'[w].file]))
          => /\ up'[w].pc = "failed"
             /\ up'[w].status \in 400..499
             /\ FileLen[up'[w].file] > MAX_UPLOAD_BYTES => up'[w].stage = "size"
             /\ UNCHANGED <<tenants, assets, renditions, storage>>
      ]_vars

\* C15: there is one Tenant row per name, and an upload that resolves its
\* tenant does so without error: it leaves the step holding the key of the
\* row with its tenant's name.
C15_TenantResolvedOnce ==
    [][/\ \A t1, t2 \in tenants' : t1.name = t2.name => t1 = t2
       /\ \A w \in Workers :
             (up[w].pc \in {"tenant", "tenant_insert"} /\ up'[w].pc # up[w].pc)
             => /\ up'[w].pc # "failed"
                /\ up'[w].pc = "asset"
                   => \E t \in tenants' : t.name = up[w].tenant /\ t.id = up'[w].tenant_id
      ]_vars

\* C16: the distance of a hash to itself is 0, and the distance of two
\* hashes of equal width is the same in either order.
C16_HammingReflexiveSymmetric ==
    (calc.fn = "hamming_distance" /\ calc.pc = "return")
    => LET a == calc.args[1]
           b == calc.args[2]
       IN  /\ a = b => calc.result = 0
           /\ Len(a) = Len(b) => calc.result = hamming_distance(b, a)

\* A call on two different hashes of equal width, more than one digit wide,
\* has returned a distance that is not 0.
C16_Witness ==
    /\ calc.fn = "hamming_distance" /\ calc.pc = "return"
    /\ Len(calc.args[1]) = Len(calc.args[2])
    /\ Len(calc.args[1]) > 1
    /\ calc.args[1] # calc.args[2]
    /\ calc.result > 0

\* C17: a call on two hashes of different lengths returns no number.
C17_UnequalWidthFails ==
    (/\ calc.fn = "hamming_distance" /\ calc.pc = "return"
     /\ Len(calc.args[1]) # Len(calc.args[2]))
    => calc.result \notin Nat

\* C18: when renditions of the preset owned by other assets are within the
\* threshold of the new asset's hash, the row added copies the one of them
\* with the smallest identifier.
C18_ReusesSmallestId ==
    [][\A w \in Workers :
          (/\ up[w].pc = "presets"
           /\ Len(up'[w].pending) = Len(up[w].pending) + 1
           /\ ReuseCandidates(PRESETS[up[w].idx], OriginalPhash[up[w].file],
                              up[w].asset_id) # {})
          => LET near == ReuseCandidates(PRESETS[up[w].idx], OriginalPhash[up[w].file],
                                         up[w].asset_id)
                 first == CHOOSE r \in near : \A x \in near : r.id <= x.id
                 new == up'[w].pending[Len(up'[w].pending)]
             IN  new.url = first.url /\ new.phash = first.phash
      ]_vars

\* C19: a storage write that fails in the preset loop does not end the
\* upload: the loop goes on to the next preset (or to the commit) with the
\* rows it has, and the upload is not answered with an error.
C19_WriteFailureSkipsPreset ==
    [][\A w \in Workers :
          (up[w].pc = "presets" /\ up'[w] # up[w] /\ writeFaults' = writeFaults + 1)
          => /\ up'[w].pc \in {"presets", "commit"}
             /\ up'[w].pending = up[w].pending
             /\ up'[w].asset_id = up[w].asset_id
      ]_vars

\* C20: with uploads only, failing writes included, the storage location of
\* every persisted Rendition row holds an object.
C20_RowOnlyAfterWrite ==
    \A r \in renditions : StorageExists(r.url)

\* An upload wrote its first rendition and failed on a later write: the
\* object is there and no row of its asset is persisted, while the rows of
\* another asset are.
C20_Witness ==
    /\ renditions # {}
    /\ \E w \in Workers :
          /\ up[w].pc = "failed" /\ up[w].stage = "presets" /\ up[w].status = 500
          /\ [key |-> storage_key(HashOf(w), PRESETS[1]),
              data |-> generate_rendition_bytes(up[w].file, PRESETS[1]).bytes] \in storage
          /\ \E a \in assets : a.content_hash = HashOf(w) /\ RenditionsOf(a.id) = {}

\* C21: a preset iteration that finds a candidate adds a row with the storage
\* location, size_bytes, width, height and quality of one candidate, and
\* writes no storage object.
C21_ReuseCopiesVerbatim ==
    [][\A w \in Workers :
          (/\ up[w].pc = "presets"
           /\ Len(up'[w].pending) = Len(up[w].pending) + 1
           /\ ReuseCandidates(PRESETS[up[w].idx], OriginalPhash[up[w].file],
                              up[w].asset_id) # {})
          => LET new == up'[w].pending[Len(up'[w].pending)]
             IN  /\ \E r \in ReuseCandidates(PRESETS[up[w].idx], OriginalPhash[up[w].file],
                                             up[w].asset_id) :
                       /\ new.url = r.url
                       /\ new.size_bytes = r.size_bytes
                       /\ new.width = r.width
                       /\ new.height = r.height
                       /\ new.quality = r.quality
                 /\ new.asset_id = up[w].asset_id
                 /\ storage' = storage
      ]_vars

\* An upload holds a row that copies a persisted row of another asset, and
\* nothing was written at the key a generated rendition would have had.
C21_Witness ==
    \E w \in Workers :
        /\ up[w].pc \in {"presets", "commit"}
        /\ \E i \in DOMAIN up[w].pending :
              /\ \E r \in renditions :
                    /\ r.asset_id # up[w].asset_id
                    /\ r.preset = up[w].pending[i].preset
                    /\ r.url = up[w].pending[i].url
                    /\ r.size_bytes = up[w].pending[i].size_bytes
                    /\ r.size_bytes > 0
              /\ ~StorageExists(storage_key(HashOf(w), up[w].pending[i].preset))

\* C22: a row added for preset P by the upload of asset X that does not point
\* at X's own key points at the location of a persisted rendition of preset
\* P owned by another asset, and carries that rendition's hash.
C22_ReusedIsOtherAssetSamePreset ==
    [][\A w \in Workers :
          (/\ up[w].pc = "presets"
           /\ Len(up'[w].pending) = Len(up[w].pending) + 1
           /\ up'[w].pending[Len(up'[w].pending)].url
                 # storage_key(HashOf(w), PRESETS[up[w].idx]))
          => LET new == up'[w].pending[Len(up'[w].pending)]
             IN  /\ new.preset = PRESETS[up[w].idx]
                 /\ \E r \in renditions :
                       /\ r.preset = PRESETS[up[w].idx]
                       /\ r.asset_id # up[w].asset_id
                       /\ r.url = new.url
                       /\ r.phash = new.phash
      ]_vars

\* An upload generated its own thumb although another asset's renditions of
\* other presets were within the threshold, and reused that asset's card.
C22_Witness ==
    \E w \in Workers :
        /\ up[w].pc = "commit"
        /\ up[w].pending[1].url = storage_key(HashOf(w), PRESETS[1])
        /\ up[w].pending[2].url # storage_key(HashOf(w), PRESETS[2])
        /\ \E r \in renditions :
              /\ r.asset_id # up[w].asset_id
              /\ r.preset # PRESETS[1]
              /\ is_near_duplicate(OriginalPhash[up[w].file], r.phash)
        /\ ~\E r \in renditions :
              /\ r.asset_id # up[w].asset_id
              /\ r.preset = PRESETS[1]
              /\ is_near_duplicate(OriginalPhash[up[w].file], r.phash)

\* C23: a storage delete that fails during a confirmed purge does not stop
\* it: the loop goes on with the asset counted, and the commit deletes the
\* candidates and their Rendition rows and answers 200 with their number.
C23_DeleteFailureSwallowed ==
    [][/\ (pg.pc = "deleting" /\ pg'.undeleted # pg.undeleted)
          => /\ pg'.pc \in {"deleting", "commit"}
             /\ pg'.deleted_count = pg.deleted_count + 1
             /\ UNCHANGED <<assets, renditions>>
       /\ (pg.pc = "commit" /\ pg'.pc # "commit" /\ pg.undeleted # {})
          => /\ pg'.pc = "done"
             /\ pg'.status = 200
             /\ pg'.deleted_count = Cardinality(pg.candidates)
             /\ assets' = {a \in assets : a.id \notin pg.candidates}
             /\ renditions' = {r \in renditions : r.asset_id \notin pg.candidates}
      ]_vars

\* A confirmed purge has answered 200 after a delete failed: the object is
\* still stored, and no Rendition row and no asset is left that had it.
C23_Witness ==
    /\ pg.pc = "done" /\ ~pg.dry_run /\ pg.status = 200
    /\ pg.deleted_count > 0
    /\ \E k \in pg.undeleted :
          /\ StorageExists(k)
          /\ ~\E r \in renditions : r.url = k
    /\ \A h \in pg.hashes : AssetByHash(h) = {}

\* C24: delete of a key that holds no object (never saved, or deleted
\* before) returns False and changes nothing; delete of a key that holds an
\* object returns True, removes that object only, and exists of the key is
\* then False.
C24_DeleteIdempotent ==
    [][\A key \in AdapterKeys :
          (calc'.fn = "delete" /\ calc'.args = <<key>> /\ calc' # calc)
          => /\ ~StorageExists(key) => (calc'.result = FALSE /\ storage' = storage)
             /\ StorageExists(key)
                   => /\ calc'.result = TRUE
                      /\ storage' = {o \in storage : o.key # key}
             /\ ~StorageExists(key)'
      ]_vars

\* A key that held an object was deleted (True) and deleted again (False),
\* while other objects stay stored.
C24_Witness ==
    /\ calc.fn = "delete"
    /\ calc.result = FALSE
    /\ calc.prev.fn = "delete"
    /\ calc.prev.args = calc.args
    /\ calc.prev.result = TRUE
    /\ storage # {}

\* C25: the hash has hash_size*hash_size/4 hex digits, and its i-th bit from
\* the most significant is 1 exactly when the i-th sample in row-major order
\* is strictly above the mean of the samples; a grid of equal samples hashes
\* to zeros.
C25_PhashBitPerSample ==
    (calc.fn = "compute_phash" /\ calc.pc = "return")
    => LET px == calc.args[1]
           n == Len(px)
           out == calc.result
       IN  /\ Len(out) = (calc.args[2] * calc.args[2]) \div 4
           /\ \A i \in 1..n :
                 Bit(out[((i - 1) \div 4) + 1], 3 - ((i - 1) % 4)) = 1
                    <=> px[i] * n > SumSeq(px)
           /\ (\A i \in 1..n : px[i] = px[1]) => \A d \in 1..Len(out) : out[d] = 0

\* The hash of a 4 x 4 grid that starts with zero digits, has a digit that is
\* not zero, and comes from a grid with samples above the mean.
C25_Witness ==
    /\ calc.fn = "compute_phash" /\ calc.pc = "return"
    /\ calc.args[2] = 4
    /\ calc.result[1] = 0 /\ calc.result[2] = 0
    /\ \E d \in 3..4 : calc.result[d] \notin {0, 15}

\* C26: compare_image leaves the Tenant, Asset and Rendition tables and the
\* storage as they were, whatever it answers; when it answers with results
\* there is exactly one per configured preset, in the order of the table, and
\* the recommended preset is one of the table.
C26_CompareReadsOnly ==
    [][(calc.fn = "compare_image" /\ calc.pc = "call" /\ calc'.pc = "return")
       => /\ UNCHANGED <<tenants, assets, renditions, storage>>
          /\ calc'.result.status = 200
                => /\ Len(calc'.result.results) = Len(PRESETS)
                   /\ \A i \in 1..Len(PRESETS) : calc'.result.results[i].preset = PRESETS[i]
                   /\ calc'.result.recommended \in PresetNames
      ]_vars

\* A comparison answered with results while assets, renditions and stored
\* objects exist.
C26_Witness ==
    /\ calc.fn = "compare_image" /\ calc.pc = "return"
    /\ calc.result.status = 200
    /\ Len(calc.result.results) = Len(PRESETS)
    /\ assets # {} /\ renditions # {} /\ storage # {} /\ tenants # {}

\* C27: every persisted asset has no Rendition row or exactly one row per
\* configured preset, also after an upload that failed within its preset
\* loop.
C27_RenditionsAllOrNothing ==
    \A a \in assets :
        \/ RenditionsOf(a.id) = {}
        \/ /\ Cardinality(RenditionsOf(a.id)) = Len(PRESETS)
           /\ \A p \in PresetNames : \E r \in RenditionsOf(a.id) : r.preset = p

\* An upload generated its first rendition and failed on a later write: its
\* asset is persisted without any row, next to an asset that has one row per
\* preset.
C27_Witness ==
    \E w \in Workers :
        /\ up[w].pc = "failed" /\ up[w].stage = "presets"
        /\ \E o \in storage :
              /\ o.key = storage_key(HashOf(w), PRESETS[1])
              /\ o.data = generate_rendition_bytes(up[w].file, PRESETS[1]).bytes
        /\ \E a, b \in assets :
              /\ a.content_hash = HashOf(w)
              /\ RenditionsOf(a.id) = {}
              /\ b # a
              /\ Cardinality(RenditionsOf(b.id)) = Len(PRESETS)

\* C28: two Rendition rows with the same storage location have the same
\* size_bytes, width, height, quality and phash.
C28_SameUrlSameMetadata ==
    \A r, s \in renditions :
        r.url = s.url
        => /\ r.size_bytes = s.size_bytes
           /\ r.width = s.width
           /\ r.height = s.height
           /\ r.quality = s.quality
           /\ r.phash = s.phash

\* C29: no step of an upload, whether it ends Created, Returned-Existing or
\* in an error, removes or changes an Asset row or a Rendition row that was
\* there before the step, and the Asset row an upload adds has in_use_count 0.
C29_UploadKeepsExistingRows ==
    [][(up' # up)
       => /\ assets \subseteq assets'
          /\ renditions \subseteq renditions'
          /\ \A a \in assets' \ assets : a.in_use_count = 0
      ]_vars

\* An upload was answered Created with an asset whose in_use_count is 0,
\* while an older asset with its renditions has a counter above 0.
C29_Witness ==
    \E w \in Workers :
        /\ up[w].pc = "done" /\ up[w].status = 201
        /\ \E a, b \in assets :
              /\ a.id = up[w].out.id
              /\ a.in_use_count = 0
              /\ b.id < a.id
              /\ b.in_use_count > 0
              /\ RenditionsOf(b.id) # {}
              /\ RenditionsOf(a.id) # {}

C31_ExactMatchIgnoresTenant ==
    [][\A w \in Workers : \A a \in assets :
          LET other == \A x \in TenantByName(up'[w].tenant) : x.id # a.tenant_id
          IN  /\ (/\ up[w].pc = "idle"
                  /\ up'[w].pc # "idle"
                  /\ FileLen[up'[w].file] <= MAX_UPLOAD_BYTES
                  /\ a.content_hash = compute_content_hash[up'[w].file]
                  /\ other)
                 => /\ up'[w].pc = "existing"
                    /\ up'[w].asset_id = a.id
                    /\ UNCHANGED <<tenants, assets, renditions>>
              /\ (/\ up[w].pc = "existing"
                  /\ up'[w] # up[w]
                  /\ a.id = up[w].asset_id
                  /\ other)
                 => /\ up'[w].pc = "done"
                    /\ up'[w].out.id = a.id
                    /\ up'[w].out.tenant_id = a.tenant_id
                    /\ UNCHANGED <<tenants, assets, renditions>>
      ]_vars

\* An upload naming a tenant that does not exist was answered with the asset
\* of the other tenant, and the tenant named still does not exist.
C31_Witness ==
    \E w \in Workers :
        /\ up[w].pc = "done" /\ ~up[w].missed
        /\ TenantByName(up[w].tenant) = {}
        /\ \E a \in assets, x \in tenants :
              /\ a.content_hash = HashOf(w)
              /\ a.id = up[w].out.id
              /\ x.id = a.tenant_id
              /\ up[w].out.tenant_id = x.id
              /\ x.name # up[w].tenant
        /\ Cardinality(assets) = 1
        /\ Cardinality(up[w].out.renditions) = Len(PRESETS)

====
